---- MODULE Spec2Model ----
(***************************************************************************)
(* Scene objects of Blue Engine (crates/blue_engine_core/src/objects.rs):  *)
(* the Object transform / pipeline / instancing state, its update pass     *)
(* against the renderer, the shader template builder and the name-keyed    *)
(* ObjectStorage.                                                          *)
(*                                                                         *)
(* Numbers.  f32 values are modelled by exact integers.  Angles are        *)
(* counted in half turns (1 = pi radians), so every per-axis quaternion    *)
(* has integer components.  The inverse of a matrix is the exact rational  *)
(* inverse, kept as an integer matrix over a common denominator.           *)
(*                                                                         *)
(* GPU resources.  A resource built by the renderer is modelled by the     *)
(* record of its build inputs; the renderer itself is the sequence of the  *)
(* resources it was asked to build during the current operation.           *)
(***************************************************************************)
EXTENDS Integers, Sequences, FiniteSets, TLC

VARIABLES
    objects,   \* ObjectStorage: object name -> Object
    calls,     \* the renderer's calls (and prints) of the last operation, in order
    last,      \* the last operation: [op, on, arg, ret], prev: the one before
    budget     \* operations the caller still performs

vars == <<objects, calls, last, budget>>

----------------------------------------------------------------------------
(* Bounds of the model *)

\* operations performed in a run of Spec (every operation of one Object)
MaxOps == 2
\* operations performed in a run of SpecTransform (the transform operations)
MaxTransformOps == 3
\* operations performed in a run of SpecUpdate (mutations and update passes)
MaxUpdateOps == 3
\* operations performed in a run of SpecRegistry (two registered objects)
MaxRegistryOps == 3
\* operations performed in a run of SpecStorage (the ObjectStorage operations)
MaxStorageOps == 3
\* operations performed in a run of SpecShader (shader templates of one object)
MaxShaderOps == 2
\* pieces of a shader template handed to set_shader
MaxTemplateLen == 4
\* operations performed in a run of SpecCompose (scale and rotation composed)
MaxComposeOps == 2
\* operations performed in a run of SpecPosition (translate and set_position)
MaxPositionOps == 4
\* operations performed in a run of SpecRotation (set_rotation and rotate)
MaxRotationOps == 3

----------------------------------------------------------------------------
(* Vector3 / Vector4 / Matrix4 / Quaternion (glam), on exact integers *)

Vector3_ZERO == <<0, 0, 0>>
Vector3_ONE == <<1, 1, 1>>

\* Vector3 *= Vector3, component-wise
Vec3Mul(a, b) == <<a[1] * b[1], a[2] * b[2], a[3] * b[3]>>

\* Vector3 -= Vector3
Vec3Sub(a, b) == <<a[1] - b[1], a[2] - b[2], a[3] - b[3]>>

Matrix4_IDENTITY ==
    << <<1, 0, 0, 0>>,
       <<0, 1, 0, 0>>,
       <<0, 0, 1, 0>>,
       <<0, 0, 0, 1>> >>

\* Matrix4::from_scale
Matrix4_from_scale(s) ==
    << <<s[1], 0, 0, 0>>,
       <<0, s[2], 0, 0>>,
       <<0, 0, s[3], 0>>,
       <<0, 0, 0, 1>> >>

\* Matrix4::from_translation
Matrix4_from_translation(t) ==
    << <<1, 0, 0, t[1]>>,
       <<0, 1, 0, t[2]>>,
       <<0, 0, 1, t[3]>>,
       <<0, 0, 0, 1>> >>

\* Matrix4 * Matrix4
Matrix4_mul(a, b) ==
    [r \in 1..4 |->
        [c \in 1..4 |->
            a[r][1] * b[1][c] + a[r][2] * b[2][c]
              + a[r][3] * b[3][c] + a[r][4] * b[4][c]]]

\* Matrix4::transpose
Matrix4_transpose(m) == [r \in 1..4 |-> [c \in 1..4 |-> m[c][r]]]

Quaternion_IDENTITY == <<0, 0, 0, 1>>

\* sin and cos of k quarter turns
SinQuarter(k) == CASE k % 4 = 0 -> 0 [] k % 4 = 1 -> 1 [] k % 4 = 2 -> 0 [] OTHER -> -1
CosQuarter(k) == SinQuarter(k + 1)

\* Quaternion::from_rotation_x / _y / _z of an angle of a half turns:
\* (sin(angle/2), 0, 0, cos(angle/2)) and likewise for y and z
Quaternion_from_rotation_x(a) == <<SinQuarter(a), 0, 0, CosQuarter(a)>>
Quaternion_from_rotation_y(a) == <<0, SinQuarter(a), 0, CosQuarter(a)>>
Quaternion_from_rotation_z(a) == <<0, 0, SinQuarter(a), CosQuarter(a)>>

\* Quaternion * Quaternion, components <<x, y, z, w>>
Quaternion_mul(p, q) ==
    << p[4] * q[1] + p[1] * q[4] + p[2] * q[3] - p[3] * q[2],
       p[4] * q[2] - p[1] * q[3] + p[2] * q[4] + p[3] * q[1],
       p[4] * q[3] + p[1] * q[2] - p[2] * q[1] + p[3] * q[4],
       p[4] * q[4] - p[1] * q[1] - p[2] * q[2] - p[3] * q[3] >>

\* Matrix4::from_quat
Matrix4_from_quat(q) ==
    LET x == q[1]
        y == q[2]
        z == q[3]
        w == q[4]
        xx == x * (x + x)
        xy == x * (y + y)
        xz == x * (z + z)
        yy == y * (y + y)
        yz == y * (z + z)
        zz == z * (z + z)
        wx == w * (x + x)
        wy == w * (y + y)
        wz == w * (z + z)
    IN  << <<1 - (yy + zz), xy - wz, xz + wy, 0>>,
           <<xy + wz, 1 - (xx + zz), yz - wx, 0>>,
           <<xz - wy, yz + wx, 1 - (xx + yy), 0>>,
           <<0, 0, 0, 1>> >>

Abs(n) == IF n < 0 THEN -n ELSE n

RECURSIVE Gcd(_, _)
Gcd(a, b) == IF b = 0 THEN a ELSE Gcd(b, a % b)

\* the entries of a matrix, row by row
Entries(m) == [i \in 1..16 |-> m[((i - 1) \div 4) + 1][((i - 1) % 4) + 1]]

RECURSIVE GcdSeq(_, _)
GcdSeq(s, g) == IF s = <<>> THEN g ELSE GcdSeq(Tail(s), Gcd(Abs(Head(s)), g))

\* a rational matrix num / den in lowest terms with den > 0; a singular
\* matrix has no finite inverse (glam yields non-finite entries): den = 0
Rational(num, den) ==
    IF den = 0
    THEN [num |-> [r \in 1..4 |-> [c \in 1..4 |-> 0]], den |-> 0]
    ELSE LET g == GcdSeq(Entries(num), Abs(den))
             s == IF den < 0 THEN -g ELSE g
         IN  [num |-> [r \in 1..4 |-> [c \in 1..4 |-> num[r][c] \div s]],
              den |-> den \div s]

\* Matrix4::inverse: adjugate over determinant, through the 2x2 minors
Matrix4_inverse(m) ==
    LET s0 == m[1][1] * m[2][2] - m[2][1] * m[1][2]
        s1 == m[1][1] * m[2][3] - m[2][1] * m[1][3]
        s2 == m[1][1] * m[2][4] - m[2][1] * m[1][4]
        s3 == m[1][2] * m[2][3] - m[2][2] * m[1][3]
        s4 == m[1][2] * m[2][4] - m[2][2] * m[1][4]
        s5 == m[1][3] * m[2][4] - m[2][3] * m[1][4]
        c5 == m[3][3] * m[4][4] - m[4][3] * m[3][4]
        c4 == m[3][2] * m[4][4] - m[4][2] * m[3][4]
        c3 == m[3][2] * m[4][3] - m[4][2] * m[3][3]
        c2 == m[3][1] * m[4][4] - m[4][1] * m[3][4]
        c1 == m[3][1] * m[4][3] - m[4][1] * m[3][3]
        c0 == m[3][1] * m[4][2] - m[4][1] * m[3][2]
        det == s0 * c5 - s1 * c4 + s2 * c3 + s3 * c2 - s4 * c1 + s5 * c0
        adj ==
          << << m[2][2] * c5 - m[2][3] * c4 + m[2][4] * c3,
                0 - m[1][2] * c5 + m[1][3] * c4 - m[1][4] * c3,
                m[4][2] * s5 - m[4][3] * s4 + m[4][4] * s3,
                0 - m[3][2] * s5 + m[3][3] * s4 - m[3][4] * s3 >>,
             << 0 - m[2][1] * c5 + m[2][3] * c2 - m[2][4] * c1,
                m[1][1] * c5 - m[1][3] * c2 + m[1][4] * c1,
                0 - m[4][1] * s5 + m[4][3] * s2 - m[4][4] * s1,
                m[3][1] * s5 - m[3][3] * s2 + m[3][4] * s1 >>,
             << m[2][1] * c4 - m[2][2] * c2 + m[2][4] * c0,
                0 - m[1][1] * c4 + m[1][2] * c2 - m[1][4] * c0,
                m[4][1] * s4 - m[4][2] * s2 + m[4][4] * s0,
                0 - m[3][1] * s4 + m[3][2] * s2 - m[3][4] * s0 >>,
             << 0 - m[2][1] * c3 + m[2][2] * c1 - m[2][3] * c0,
                m[1][1] * c3 - m[1][2] * c1 + m[1][3] * c0,
                0 - m[4][1] * s3 + m[4][2] * s1 - m[4][3] * s0,
                m[3][1] * s3 - m[3][2] * s1 + m[3][3] * s0 >> >>
    IN  Rational(adj, det)

\* Matrix4::transpose of a rational matrix
Rational_transpose(q) == [num |-> Matrix4_transpose(q.num), den |-> q.den]

----------------------------------------------------------------------------
(* Values drawn for the operations' arguments *)

Names == {"A", "B"}

\* geometry handed to Object::new: vertex ids and the indices drawing them
Triangle == [vertices |-> <<"v0", "v1", "v2">>, indices |-> <<0, 1, 2>>]

None == [some |-> FALSE]
Some(v) == [some |-> TRUE, value |-> v]

\* ObjectSettings: the default one (camera "main") and one without camera
SettingsSet ==
    { [camera_effect |-> Some("main"), shader_settings |-> "ShaderSettings::default"],
      [camera_effect |-> None, shader_settings |-> "ShaderSettings::default"] }

ScaleArgs == { <<2, 2, 2>>, <<1, 3, 1>> }
RotationArgs == { <<1, 0, 0>>, <<0, 1, 1>> }
PositionArgs == { <<1, 0, 0>>, <<0, 2, -1>> }
ColorArgs == { <<1, 0, 0, 1>> }
\* RotateAmount: Radians counted in half turns, Degrees in degrees
Radians(amount) == [unit |-> "Radians", amount |-> amount]
Degrees(amount) == [unit |-> "Degrees", amount |-> amount]
\* (amount, axis) pairs handed to rotate
RotateArgs ==
    { <<Radians(1), "X">>, <<Radians(1), "Y">>, <<Radians(1), "Z">>, <<Degrees(540), "X">> }
TextureDataArgs == {"image1", "image2"}
RenderOrderArgs == {1}

----------------------------------------------------------------------------
(* The renderer collaborator: each build yields the record of its inputs *)

DEFAULT_COLOR == <<1, 1, 1, 1>>
DEFAULT_TEXTURE == "default_texture"

build_vertex_buffer(vertices, indices) ==
    [kind |-> "VertexBuffers", vertices |-> vertices, indices |-> indices]

build_uniform_buffer_part(name, value) ==
    [kind |-> "UniformPart", name |-> name, value |-> value]

\* the pair (UniformBuffers, BindGroupLayout) created for these parts
build_uniform_buffer(parts) ==
    << [kind |-> "UniformBuffers", parts |-> parts],
       [kind |-> "BindGroupLayout", parts |-> parts] >>

build_shader(name, source, layout, settings) ==
    [kind |-> "Shaders", name |-> name, source |-> source,
     layout |-> layout, settings |-> settings]

\* the texture of a successful build_texture
build_texture(name, data, mode) ==
    [kind |-> "Textures", name |-> name, data |-> data, mode |-> mode]

build_instance(instance_data) ==
    [kind |-> "InstanceBuffer", data |-> instance_data]

\* PipelineData<T>
Data(d) == [tag |-> "Data", data |-> d]
Copy(object_id) == [tag |-> "Copy", id |-> object_id]

----------------------------------------------------------------------------
(* Instance *)

Instance_default ==
    [position |-> Vector3_ZERO, rotation |-> Vector3_ZERO, scale |-> Vector3_ONE]

Instance_new(position, rotation, scale) ==
    [position |-> position, rotation |-> rotation, scale |-> scale]

\* Instance::build: the InstanceRaw holding the model matrix
Instance_build(i) ==
    LET position_matrix == Matrix4_mul(Matrix4_IDENTITY, Matrix4_from_translation(i.position))
        rotation_matrix ==
            Matrix4_from_quat(
                Quaternion_mul(
                    Quaternion_mul(Quaternion_from_rotation_x(i.rotation[1]),
                                   Quaternion_from_rotation_y(i.rotation[2])),
                    Quaternion_from_rotation_z(i.rotation[3])))
        scale_matrix == Matrix4_mul(Matrix4_IDENTITY, Matrix4_from_scale(i.scale))
    IN  [model |-> Matrix4_mul(Matrix4_mul(position_matrix, rotation_matrix), scale_matrix)]

InstanceArgs == { Instance_default, Instance_new(<<1, 0, 0>>, <<0, 1, 0>>, <<2, 2, 2>>) }

\* instances.iter().map(Instance::build).collect()
BuildAll(instances) == [k \in 1..Len(instances) |-> Instance_build(instances[k])]

----------------------------------------------------------------------------
(* ShaderBuilder: source text as a sequence of symbols *)

CAMERA_STRUCT == <<"//@CAMERA_", "STRUCT">>
CAMERA_VERTEX == <<"//@CAMERA_", "VERTEX">>

\* DEFAULT_SHADER: a template that uses both markers
DEFAULT_SHADER ==
    <<"struct TransformationUniforms">> \o CAMERA_STRUCT
        \o <<"fn vs_main">> \o CAMERA_VERTEX \o <<"fn fs_main">>

CameraStructText(camera_effect) ==
    IF camera_effect.some
    THEN <<"struct CameraUniforms", "var<uniform> camera_uniform">>
    ELSE <<>>

CameraVertexText(camera_effect) ==
    IF camera_effect.some
    THEN <<"out.position = camera_uniform.camera_matrix * model_matrix * transform">>
    ELSE <<"out.position = model_matrix * transform">>

\* does pat occur in s at position i
MatchAt(s, pat, i) ==
    /\ i + Len(pat) - 1 <= Len(s)
    /\ \A k \in 1..Len(pat) : s[i + k - 1] = pat[k]

\* str::replace: every non-overlapping occurrence, left to right
RECURSIVE ReplaceFrom(_, _, _, _)
ReplaceFrom(s, pat, rep, i) ==
    IF i > Len(s) THEN <<>>
    ELSE IF MatchAt(s, pat, i)
         THEN rep \o ReplaceFrom(s, pat, rep, i + Len(pat))
         ELSE <<s[i]>> \o ReplaceFrom(s, pat, rep, i + 1)

Replace(s, pat, rep) == ReplaceFrom(s, pat, rep, 1)

\* mutant of ShaderBuilder_build: stops after the first config
ShaderBuilder_build_first_config(sb) ==
    [sb EXCEPT !.shader =
        Replace(sb.shader, CAMERA_STRUCT, CameraStructText(sb.camera_effect))]

\* ShaderBuilder::build over the two configs, in declaration order
ShaderBuilder_build(sb) ==
    LET s1 == Replace(sb.shader, CAMERA_STRUCT, CameraStructText(sb.camera_effect))
        s2 == Replace(s1, CAMERA_VERTEX, CameraVertexText(sb.camera_effect))
    IN  [sb EXCEPT !.shader = s2]

ShaderBuilder_new(shader_source, camera_effect) ==
    ShaderBuilder_build(
        [shader |-> shader_source,
         camera_effect |-> camera_effect,
         configs |-> <<CAMERA_STRUCT, CAMERA_VERTEX>>])

\* ShaderBuilder::set_shader
ShaderBuilder_set_shader(sb, new_shader) ==
    ShaderBuilder_build([sb EXCEPT !.shader = new_shader])

\* the pieces the templates handed to set_shader are made of: the parts of
\* the two markers (DEFAULT_SHADER has ordinary shader text around them)
TemplateSymbols == {"//@CAMERA_", "STRUCT", "VERTEX"}

\* every template of at most MaxTemplateLen pieces
Templates == UNION { [1..k -> TemplateSymbols] : k \in 0..MaxTemplateLen }

----------------------------------------------------------------------------
(* Object::new *)

\* the uniform parts of a fresh object
NewUniformParts ==
    << build_uniform_buffer_part("Transformation Matrix", Matrix4_IDENTITY),
       build_uniform_buffer_part("Color", DEFAULT_COLOR) >>

\* a failed renderer call, as it appears among the renderer's calls
Failed(call) == [kind |-> "Error", call |-> call]

\* Object::new, build_texture succeeding: the Object of Ok(Object { .. })
Object_new(name, vertices, indices, settings) ==
    LET vertex_buffer == build_vertex_buffer(vertices, indices)
        uniform == build_uniform_buffer(NewUniformParts)
        shader_source == ShaderBuilder_new(DEFAULT_SHADER, settings.camera_effect)
        shader == build_shader(name, shader_source.shader, Some(uniform[2]),
                               settings.shader_settings)
        texture == build_texture("Default Texture", DEFAULT_TEXTURE, "Clamp")
        instance == Instance_default
        instance_buffer == build_instance(<<Instance_build(instance)>>)
    IN  [name |-> name,
         vertices |-> vertices,
         indices |-> indices,
         pipeline |-> [vertex_buffer |-> Data(vertex_buffer),
                       shader |-> Data(shader),
                       texture |-> Data(texture),
                       uniform |-> Data(Some(uniform[1]))],
         instances |-> <<instance>>,
         instance_buffer |-> instance_buffer,
         uniform_layout |-> uniform[2],
         size |-> Vector3_ONE,
         position |-> Vector3_ZERO,
         rotation |-> Vector3_ZERO,
         changed |-> FALSE,
         translation_matrix |-> Matrix4_IDENTITY,
         scale_matrix |-> Matrix4_IDENTITY,
         rotation_quaternion |-> Quaternion_IDENTITY,
         inverse_transformation_matrix |->
             Rational_transpose(Matrix4_inverse(Matrix4_IDENTITY)),
         color |-> DEFAULT_COLOR,
         shader_builder |-> shader_source,
         shader_settings |-> settings.shader_settings,
         camera_effect |-> settings.camera_effect,
         uniform_buffers |-> NewUniformParts,
         is_visible |-> TRUE,
         render_order |-> 0]

\* the renderer calls of Object::new, in order; a failed build_texture
\* returns through `?` before the instance buffer is built
Object_new_calls(name, vertices, indices, settings, texture_ok) ==
    LET o == Object_new(name, vertices, indices, settings)
        head == << o.pipeline.vertex_buffer.data >> \o NewUniformParts
                  \o << build_uniform_buffer(NewUniformParts)[1], o.pipeline.shader.data >>
    IN  IF texture_ok
        THEN head \o << o.pipeline.texture.data, o.instance_buffer >> \o NewUniformParts
        ELSE head \o << Failed("build_texture") >>

----------------------------------------------------------------------------
(* Object: transform, color, texture, flags.  Each operator maps the      *)
(* object before the call to the object after it.                         *)

\* Object::inverse_matrices
inverse_matrices(o) ==
    [o EXCEPT !.inverse_transformation_matrix =
        Rational_transpose(Matrix4_inverse(
            Matrix4_mul(Matrix4_mul(o.translation_matrix,
                                    Matrix4_from_quat(o.rotation_quaternion)),
                        o.scale_matrix)))]

\* Object::set_name
set_name(o, name) == [o EXCEPT !.name = name]

\* mutant of set_scale: the scale replaces the matrix instead of multiplying it
set_scale_absolute(o, scale) ==
    LET o1 == [o EXCEPT !.size = Vec3Mul(o.size, scale)]
        o2 == [o1 EXCEPT !.scale_matrix = Matrix4_from_scale(scale)]
        o3 == inverse_matrices(o2)
    IN  [o3 EXCEPT !.changed = TRUE]

\* Object::set_scale
set_scale(o, scale) ==
    LET o1 == [o EXCEPT !.size = Vec3Mul(o.size, scale)]
        transformation_matrix == o1.scale_matrix
        result == Matrix4_mul(transformation_matrix, Matrix4_from_scale(scale))
        o2 == [o1 EXCEPT !.scale_matrix = result]
        o3 == inverse_matrices(o2)
    IN  [o3 EXCEPT !.changed = TRUE]

\* Object::resize
resize(o, size) ==
    LET o1 == [o EXCEPT !.size = size]
        o2 == [o1 EXCEPT !.scale_matrix = Matrix4_IDENTITY]
    IN  set_scale(o2, size)

\* mutant of set_rotation: returns without refreshing the inverse matrix
set_rotation_stale(o, rotation) ==
    LET o1 == [o EXCEPT !.rotation = rotation]
        o2 == [o1 EXCEPT !.rotation_quaternion =
                  Quaternion_mul(
                      Quaternion_mul(Quaternion_from_rotation_x(rotation[1]),
                                     Quaternion_from_rotation_y(rotation[2])),
                      Quaternion_from_rotation_z(rotation[3]))]
    IN  [o2 EXCEPT !.changed = TRUE]

\* Object::set_rotation
set_rotation(o, rotation) ==
    LET o1 == [o EXCEPT !.rotation = rotation]
        o2 == [o1 EXCEPT !.rotation_quaternion =
                  Quaternion_mul(
                      Quaternion_mul(Quaternion_from_rotation_x(rotation[1]),
                                     Quaternion_from_rotation_y(rotation[2])),
                      Quaternion_from_rotation_z(rotation[3]))]
        o3 == inverse_matrices(o2)
    IN  [o3 EXCEPT !.changed = TRUE]

\* f32::to_radians, in half turns
to_radians(degrees) == degrees \div 180

\* mutant of rotate: the quaternion of the call replaces the stored one
rotate_absolute(o, amount, axis) ==
    LET amount_radians ==
            IF amount.unit = "Radians" THEN amount.amount ELSE to_radians(amount.amount)
        o1 == CASE axis = "X" -> [o EXCEPT !.rotation[1] = @ + amount_radians]
                [] axis = "Y" -> [o EXCEPT !.rotation[2] = @ + amount_radians]
                [] axis = "Z" -> [o EXCEPT !.rotation[3] = @ + amount_radians]
        q ==  CASE axis = "X" -> Quaternion_from_rotation_x(amount_radians)
                [] axis = "Y" -> Quaternion_from_rotation_y(amount_radians)
                [] axis = "Z" -> Quaternion_from_rotation_z(amount_radians)
        o2 == [o1 EXCEPT !.rotation_quaternion = q]
        o3 == inverse_matrices(o2)
    IN  [o3 EXCEPT !.changed = TRUE]

\* Object::rotate
rotate(o, amount, axis) ==
    LET amount_radians ==
            IF amount.unit = "Radians" THEN amount.amount ELSE to_radians(amount.amount)
        o1 == CASE axis = "X" -> [o EXCEPT !.rotation[1] = @ + amount_radians]
                [] axis = "Y" -> [o EXCEPT !.rotation[2] = @ + amount_radians]
                [] axis = "Z" -> [o EXCEPT !.rotation[3] = @ + amount_radians]
        q ==  CASE axis = "X" -> Quaternion_from_rotation_x(amount_radians)
                [] axis = "Y" -> Quaternion_from_rotation_y(amount_radians)
                [] axis = "Z" -> Quaternion_from_rotation_z(amount_radians)
        o2 == [o1 EXCEPT !.rotation_quaternion = Quaternion_mul(@, q)]
        o3 == inverse_matrices(o2)
    IN  [o3 EXCEPT !.changed = TRUE]

\* Object::set_translation (deprecated)
set_translation(o, new_pos) ==
    LET o1 == [o EXCEPT !.position = Vec3Sub(@, new_pos)]
        o2 == [o1 EXCEPT !.translation_matrix =
                  Matrix4_mul(@, Matrix4_from_translation(o1.position))]
        o3 == inverse_matrices(o2)
    IN  [o3 EXCEPT !.changed = TRUE]

\* mutant of translate: the matrix is moved by the delta, not by the position
translate_by_delta(o, new_pos) ==
    LET o1 == [o EXCEPT !.position = Vec3Sub(@, new_pos)]
        o2 == [o1 EXCEPT !.translation_matrix =
                  Matrix4_mul(@, Matrix4_from_translation(new_pos))]
        o3 == inverse_matrices(o2)
    IN  [o3 EXCEPT !.changed = TRUE]

\* Object::translate
translate(o, new_pos) ==
    LET o1 == [o EXCEPT !.position = Vec3Sub(@, new_pos)]
        o2 == [o1 EXCEPT !.translation_matrix =
                  Matrix4_mul(@, Matrix4_from_translation(o1.position))]
        o3 == inverse_matrices(o2)
    IN  [o3 EXCEPT !.changed = TRUE]

\* Object::set_position
set_position(o, new_pos) ==
    LET o1 == [o EXCEPT !.position = new_pos]
        o2 == [o1 EXCEPT !.translation_matrix = Matrix4_IDENTITY]
    IN  translate(o2, new_pos)

\* mutant of set_color: stores the color and forgets the flag
set_color_unflagged(o, red, green, blue, alpha) ==
    [o EXCEPT !.color = <<red, green, blue, alpha>>]

\* Object::set_color
set_color(o, red, green, blue, alpha) ==
    [o EXCEPT !.color = <<red, green, blue, alpha>>, !.changed = TRUE]

\* Object::set_render_order
set_render_order(o, render_order) == [o EXCEPT !.render_order = render_order]

\* Object::set_texture_raw
set_texture_raw(o, texture) ==
    [o EXCEPT !.pipeline.texture = Data(texture), !.changed = TRUE]

\* mutant of set_texture: the object is flagged before the texture is built
set_texture_flagging(s, name, texture_data, texture_mode, texture_ok) ==
    IF texture_ok
    THEN LET texture == build_texture(name, texture_data, texture_mode)
         IN  [o |-> set_texture_raw(s.o, texture),
              r |-> Append(s.r, texture),
              ret |-> "Ok"]
    ELSE [o |-> [s.o EXCEPT !.changed = TRUE],
          r |-> Append(s.r, Failed("build_texture")),
          ret |-> "Err"]

\* Object::set_texture: [o, r, ret] for the object, the renderer's calls and
\* the Result; build_texture failing returns the error through `?`
set_texture(s, name, texture_data, texture_mode, texture_ok) ==
    IF texture_ok
    THEN LET texture == build_texture(name, texture_data, texture_mode)
         IN  [o |-> set_texture_raw(s.o, texture),
              r |-> Append(s.r, texture),
              ret |-> "Ok"]
    ELSE [o |-> s.o, r |-> Append(s.r, Failed("build_texture")), ret |-> "Err"]

\* Object::flag_as_changed
flag_as_changed(o, is_changed) == [o EXCEPT !.changed = is_changed]

\* mutant of set_visibility: treats the call as the end of a frame
set_visibility_clearing(o, is_visible) ==
    [o EXCEPT !.is_visible = is_visible, !.changed = FALSE]

\* Object::set_visibility
set_visibility(o, is_visible) == [o EXCEPT !.is_visible = is_visible]

----------------------------------------------------------------------------
(* Object: the update pass.  Each operator maps [o, r] - the object and   *)
(* the renderer's calls so far - to [o, r, ret] after the step, ret being *)
(* the value handed back to the caller.                                   *)

Unit == "()"

\* Object::update_vertex_buffer
update_vertex_buffer(s) ==
    LET updated_buffer == build_vertex_buffer(s.o.vertices, s.o.indices)
    IN  [o |-> [s.o EXCEPT !.pipeline.vertex_buffer = Data(updated_buffer)],
         r |-> Append(s.r, updated_buffer),
         ret |-> Unit]

\* Object::update_vertex_buffer_and_return
update_vertex_buffer_and_return(s) ==
    LET updated_buffer == build_vertex_buffer(s.o.vertices, s.o.indices)
        updated_buffer_2 == build_vertex_buffer(s.o.vertices, s.o.indices)
    IN  [o |-> [s.o EXCEPT !.pipeline.vertex_buffer = Data(updated_buffer)],
         r |-> s.r \o <<updated_buffer, updated_buffer_2>>,
         ret |-> updated_buffer_2]

\* Object::update_shader
update_shader(s) ==
    LET updated_shader == build_shader(s.o.name, s.o.shader_builder.shader,
                                       Some(s.o.uniform_layout), s.o.shader_settings)
    IN  [o |-> [s.o EXCEPT !.pipeline.shader = Data(updated_shader)],
         r |-> Append(s.r, updated_shader),
         ret |-> Unit]

\* Object::update_shader_and_return
update_shader_and_return(s) ==
    LET updated_shader == build_shader(s.o.name, s.o.shader_builder.shader,
                                       Some(s.o.uniform_layout), s.o.shader_settings)
        updated_shader2 == build_shader(s.o.name, s.o.shader_builder.shader,
                                        Some(s.o.uniform_layout), s.o.shader_settings)
    IN  [o |-> [s.o EXCEPT !.pipeline.shader = Data(updated_shader)],
         r |-> s.r \o <<updated_shader, updated_shader2>>,
         ret |-> updated_shader2]

\* mutant of update_uniform_buffer_inner: pushes the two parts instead of
\* overwriting them
update_uniform_buffer_inner_pushing(s) ==
    LET part0 == build_uniform_buffer_part(
                     "Transformation Matrix",
                     Matrix4_mul(Matrix4_mul(s.o.translation_matrix,
                                             Matrix4_from_quat(s.o.rotation_quaternion)),
                                 s.o.scale_matrix))
        part1 == build_uniform_buffer_part("Color", s.o.color)
        o2 == [s.o EXCEPT !.uniform_buffers = @ \o <<part0, part1>>]
        updated_buffer == build_uniform_buffer(o2.uniform_buffers)
    IN  [o |-> o2,
         r |-> s.r \o <<part0, part1, updated_buffer[1]>>,
         ret |-> updated_buffer]

\* Object::update_uniform_buffer_inner; ret is (UniformBuffers, BindGroupLayout)
update_uniform_buffer_inner(s) ==
    LET part0 == build_uniform_buffer_part(
                     "Transformation Matrix",
                     Matrix4_mul(Matrix4_mul(s.o.translation_matrix,
                                             Matrix4_from_quat(s.o.rotation_quaternion)),
                                 s.o.scale_matrix))
        o1 == [s.o EXCEPT !.uniform_buffers[1] = part0]
        part1 == build_uniform_buffer_part("Color", o1.color)
        o2 == [o1 EXCEPT !.uniform_buffers[2] = part1]
        updated_buffer == build_uniform_buffer(o2.uniform_buffers)
    IN  [o |-> o2,
         r |-> s.r \o <<part0, part1, updated_buffer[1]>>,
         ret |-> updated_buffer]

\* Object::update_uniform_buffer
update_uniform_buffer(s) ==
    LET inner == update_uniform_buffer_inner(s)
        updated_buffer == inner.ret
    IN  [o |-> [inner.o EXCEPT !.pipeline.uniform = Data(Some(updated_buffer[1])),
                               !.uniform_layout = updated_buffer[2]],
         r |-> inner.r,
         ret |-> Unit]

\* Object::update_uniform_buffer_and_return
update_uniform_buffer_and_return(s) ==
    LET inner == update_uniform_buffer_inner(s)
        updated_buffer == inner.ret
        updated_buffer2 == updated_buffer
    IN  [o |-> [inner.o EXCEPT !.pipeline.uniform = Data(Some(updated_buffer[1])),
                               !.uniform_layout = updated_buffer[2]],
         r |-> inner.r,
         ret |-> updated_buffer2[1]]

\* mutant of update_instance_buffer: builds the first instance only, as
\* Object::new does
update_instance_buffer_first_only(s) ==
    LET instance_buffer == build_instance(<<Instance_build(s.o.instances[1])>>)
    IN  [o |-> [s.o EXCEPT !.instance_buffer = instance_buffer],
         r |-> Append(s.r, instance_buffer),
         ret |-> Unit]

\* Object::update_instance_buffer
update_instance_buffer(s) ==
    LET instance_data == BuildAll(s.o.instances)
        instance_buffer == build_instance(instance_data)
    IN  [o |-> [s.o EXCEPT !.instance_buffer = instance_buffer],
         r |-> Append(s.r, instance_buffer),
         ret |-> Unit]

\* Object::update_instance_buffer_and_return
update_instance_buffer_and_return(s) ==
    LET instance_data == BuildAll(s.o.instances)
        instance_buffer == build_instance(instance_data)
        instance_buffer2 == build_instance(instance_data)
    IN  [o |-> [s.o EXCEPT !.instance_buffer = instance_buffer],
         r |-> s.r \o <<instance_buffer, instance_buffer2>>,
         ret |-> instance_buffer2]

\* mutant of update: the shader is built before the uniform buffer, from the
\* layout of the previous pass
update_shader_first(s) ==
    LET s1 == update_vertex_buffer(s)
        s2 == update_shader(s1)
        s3 == update_uniform_buffer(s2)
        s4 == update_instance_buffer(s3)
    IN  [o |-> [s4.o EXCEPT !.changed = FALSE], r |-> s4.r, ret |-> Unit]

\* Object::update
update(s) ==
    LET s1 == update_vertex_buffer(s)
        s2 == update_uniform_buffer(s1)
        s3 == update_shader(s2)
        s4 == update_instance_buffer(s3)
    IN  [o |-> [s4.o EXCEPT !.changed = FALSE], r |-> s4.r, ret |-> Unit]

\* Object::update_and_return
update_and_return(s) ==
    LET s1 == update_vertex_buffer_and_return(s)
        s2 == update_uniform_buffer_and_return(s1)
        s3 == update_shader_and_return(s2)
    IN  [o |-> [s3.o EXCEPT !.changed = FALSE],
         r |-> s3.r,
         ret |-> <<s1.ret, s2.ret, s3.ret>>]

----------------------------------------------------------------------------
(* Object: references to other objects' resources, instances *)

\* Object::reference_vertices
reference_vertices(o, object_id) == [o EXCEPT !.pipeline.vertex_buffer = Copy(object_id)]

\* Object::reference_shader
reference_shader(o, object_id) == [o EXCEPT !.pipeline.shader = Copy(object_id)]

\* mutant of reference_texture: keeps a copy of a texture instead of the name
reference_texture_cached(o, object_id) ==
    [o EXCEPT !.pipeline.texture =
        Data(build_texture("Default Texture", DEFAULT_TEXTURE, "Clamp"))]

\* Object::reference_texture
reference_texture(o, object_id) == [o EXCEPT !.pipeline.texture = Copy(object_id)]

\* Object::reference_uniform_buffer
reference_uniform_buffer(o, object_id) == [o EXCEPT !.pipeline.uniform = Copy(object_id)]

\* mutant of add_instance: the new instance replaces the list
add_instance_replacing(o, instance) ==
    [o EXCEPT !.instances = <<instance>>, !.changed = TRUE]

\* mutant of add_instance: rebuilds the instance buffer inside the mutator
add_instance_rebuilding(o, instance) ==
    [o EXCEPT !.instances = Append(@, instance),
              !.instance_buffer = build_instance(BuildAll(Append(o.instances, instance))),
              !.changed = TRUE]

\* Object::add_instance
add_instance(o, instance) ==
    [o EXCEPT !.instances = Append(@, instance), !.changed = TRUE]

----------------------------------------------------------------------------
(* The renderer's draw-time resolution of a texture slot: an owned texture *)
(* is used as it is, a named reference is looked up in the storage and the *)
(* named object's own slot resolved in turn; a missing name, or a chain of *)
(* references that does not end, resolves to nothing                       *)

RECURSIVE ResolveTextureSlot(_, _, _)
ResolveTextureSlot(storage, slot, fuel) ==
    IF slot.tag = "Data" THEN Some(slot.data)
    ELSE IF slot.id \notin DOMAIN storage \/ fuel = 0 THEN None
    ELSE ResolveTextureSlot(storage, storage[slot.id].pipeline.texture, fuel - 1)

ResolveTexture(storage, n) ==
    ResolveTextureSlot(storage, storage[n].pipeline.texture, Cardinality(DOMAIN storage))

----------------------------------------------------------------------------
(* The operations as steps of the caller: operation op on the object      *)
(* registered under n, leaving object o, renderer calls r, result ret     *)

Step(n, op, arg, o, r, ret) ==
    /\ budget > 0
    /\ budget' = budget - 1
    /\ objects' = [objects EXCEPT ![n] = o]
    /\ calls' = r
    /\ last' = [op |-> op, on |-> n, arg |-> arg, ret |-> ret, prev |-> last.op]

Self == "&mut Self"

\* the object and a renderer that has served no call yet
Call(n) == [o |-> objects[n], r |-> <<>>]

SetName ==
    \E n \in DOMAIN objects, name \in Names :
        Step(n, "set_name", name, set_name(objects[n], name), <<>>, Self)

SetScale ==
    \E n \in DOMAIN objects, scale \in ScaleArgs :
        Step(n, "set_scale", scale, set_scale(objects[n], scale), <<>>, Self)

Resize ==
    \E n \in DOMAIN objects, size \in ScaleArgs :
        Step(n, "resize", size, resize(objects[n], size), <<>>, Self)

SetRotation ==
    \E n \in DOMAIN objects, rotation \in RotationArgs :
        Step(n, "set_rotation", rotation, set_rotation(objects[n], rotation), <<>>, Self)

Rotate ==
    \E n \in DOMAIN objects, a \in RotateArgs :
        Step(n, "rotate", a, rotate(objects[n], a[1], a[2]), <<>>, Self)

SetTranslation ==
    \E n \in DOMAIN objects, new_pos \in PositionArgs :
        Step(n, "set_translation", new_pos, set_translation(objects[n], new_pos), <<>>, Self)

Translate ==
    \E n \in DOMAIN objects, new_pos \in PositionArgs :
        Step(n, "translate", new_pos, translate(objects[n], new_pos), <<>>, Self)

SetPosition ==
    \E n \in DOMAIN objects, new_pos \in PositionArgs :
        Step(n, "set_position", new_pos, set_position(objects[n], new_pos), <<>>, Self)

SetColor ==
    \E n \in DOMAIN objects, c \in ColorArgs :
        Step(n, "set_color", c, set_color(objects[n], c[1], c[2], c[3], c[4]), <<>>, Self)

SetRenderOrder ==
    \E n \in DOMAIN objects, render_order \in RenderOrderArgs :
        Step(n, "set_render_order", render_order,
             set_render_order(objects[n], render_order), <<>>, Self)

SetTexture ==
    \E n \in DOMAIN objects, texture_data \in TextureDataArgs, texture_ok \in BOOLEAN :
        LET s == set_texture(Call(n), "texture", texture_data, "Repeat", texture_ok)
        IN  Step(n, "set_texture", texture_data, s.o, s.r, s.ret)

SetTextureRaw ==
    \E n \in DOMAIN objects, texture_data \in TextureDataArgs :
        LET texture == build_texture("raw", texture_data, "Clamp")
        IN  Step(n, "set_texture_raw", texture, set_texture_raw(objects[n], texture),
                 <<>>, Self)

FlagAsChanged ==
    \E n \in DOMAIN objects, is_changed \in BOOLEAN :
        Step(n, "flag_as_changed", is_changed, flag_as_changed(objects[n], is_changed),
             <<>>, Unit)

SetVisibility ==
    \E n \in DOMAIN objects, is_visible \in BOOLEAN :
        Step(n, "set_visibility", is_visible, set_visibility(objects[n], is_visible),
             <<>>, Unit)

InverseMatrices ==
    \E n \in DOMAIN objects :
        Step(n, "inverse_matrices", Unit, inverse_matrices(objects[n]), <<>>, Unit)

Update ==
    \E n \in DOMAIN objects :
        LET s == update(Call(n)) IN Step(n, "update", Unit, s.o, s.r, s.ret)

UpdateAndReturn ==
    \E n \in DOMAIN objects :
        LET s == update_and_return(Call(n))
        IN  Step(n, "update_and_return", Unit, s.o, s.r, s.ret)

UpdateVertexBuffer ==
    \E n \in DOMAIN objects :
        LET s == update_vertex_buffer(Call(n))
        IN  Step(n, "update_vertex_buffer", Unit, s.o, s.r, s.ret)

UpdateVertexBufferAndReturn ==
    \E n \in DOMAIN objects :
        LET s == update_vertex_buffer_and_return(Call(n))
        IN  Step(n, "update_vertex_buffer_and_return", Unit, s.o, s.r, s.ret)

UpdateShader ==
    \E n \in DOMAIN objects :
        LET s == update_shader(Call(n))
        IN  Step(n, "update_shader", Unit, s.o, s.r, s.ret)

UpdateShaderAndReturn ==
    \E n \in DOMAIN objects :
        LET s == update_shader_and_return(Call(n))
        IN  Step(n, "update_shader_and_return", Unit, s.o, s.r, s.ret)

UpdateUniformBuffer ==
    \E n \in DOMAIN objects :
        LET s == update_uniform_buffer(Call(n))
        IN  Step(n, "update_uniform_buffer", Unit, s.o, s.r, s.ret)

UpdateUniformBufferAndReturn ==
    \E n \in DOMAIN objects :
        LET s == update_uniform_buffer_and_return(Call(n))
        IN  Step(n, "update_uniform_buffer_and_return", Unit, s.o, s.r, s.ret)

UpdateInstanceBuffer ==
    \E n \in DOMAIN objects :
        LET s == update_instance_buffer(Call(n))
        IN  Step(n, "update_instance_buffer", Unit, s.o, s.r, s.ret)

UpdateInstanceBufferAndReturn ==
    \E n \in DOMAIN objects :
        LET s == update_instance_buffer_and_return(Call(n))
        IN  Step(n, "update_instance_buffer_and_return", Unit, s.o, s.r, s.ret)

ReferenceVertices ==
    \E n \in DOMAIN objects, object_id \in Names :
        Step(n, "reference_vertices", object_id,
             reference_vertices(objects[n], object_id), <<>>, Self)

ReferenceShader ==
    \E n \in DOMAIN objects, object_id \in Names :
        Step(n, "reference_shader", object_id,
             reference_shader(objects[n], object_id), <<>>, Self)

ReferenceTexture ==
    \E n \in DOMAIN objects, object_id \in Names :
        Step(n, "reference_texture", object_id,
             reference_texture(objects[n], object_id), <<>>, Self)

ReferenceUniformBuffer ==
    \E n \in DOMAIN objects, object_id \in Names :
        Step(n, "reference_uniform_buffer", object_id,
             reference_uniform_buffer(objects[n], object_id), <<>>, Self)

AddInstance ==
    \E n \in DOMAIN objects, instance \in InstanceArgs :
        Step(n, "add_instance", instance, add_instance(objects[n], instance), <<>>, Self)

\* object.shader_builder.set_shader(new_shader), on the public field
SetShader ==
    \E n \in DOMAIN objects, new_shader \in Templates :
        Step(n, "set_shader", new_shader,
             [objects[n] EXCEPT !.shader_builder = ShaderBuilder_set_shader(@, new_shader)],
             <<>>, Unit)

----------------------------------------------------------------------------
(* ObjectStorage: a HashMap<String, Object>, reached through Deref as well *)

\* ObjectStorage::new: the empty map
ObjectStorage_new == [k \in {} |-> Unit]

\* HashMap::insert: the entry under key is the given object, replacing any
insert(storage, key, object) ==
    [k \in DOMAIN storage \cup {key} |-> IF k = key THEN object ELSE storage[k]]

\* HashMap::remove
remove(storage, key) == [k \in DOMAIN storage \ {key} |-> storage[k]]

\* eprintln! of ObjectStorage::new_object, as it appears among the calls
Eprintln(text) == [kind |-> "eprintln", text |-> text]

\* ObjectStorage::new_object: [storage, r, ret]; Err(e) is printed, () returned
new_object(storage, name, vertices, indices, settings, texture_ok) ==
    LET r == Object_new_calls(name, vertices, indices, settings, texture_ok)
    IN  IF texture_ok
        THEN [storage |-> insert(storage, name,
                                 Object_new(name, vertices, indices, settings)),
              r |-> r,
              ret |-> Unit]
        ELSE [storage |-> storage,
              r |-> Append(r, Eprintln("Could not create a new Object")),
              ret |-> Unit]

\* ObjectStorage::add_object
add_object(storage, key, object) == insert(storage, key, object)

\* a callback handed to update_object: the Object method it calls
Callback(method, arg) == [method |-> method, arg |-> arg]

CallbackArgs ==
    { Callback("set_name", "A"), Callback("set_name", "B"),
      Callback("reference_texture", "A") }

\* callback(object)
ApplyCallback(callback, o) ==
    CASE callback.method = "set_name" -> set_name(o, callback.arg)
      [] callback.method = "reference_texture" -> reference_texture(o, callback.arg)

\* ObjectStorage::update_object: a key that is not there is ignored
update_object(storage, key, callback) ==
    IF key \in DOMAIN storage
    THEN [storage EXCEPT ![key] = ApplyCallback(callback, @)]
    ELSE storage

\* a call on the storage, leaving storage objs, calls r, result ret
StorageStep(op, key, arg, objs, r, ret) ==
    /\ budget > 0
    /\ budget' = budget - 1
    /\ objects' = objs
    /\ calls' = r
    /\ last' = [op |-> op, on |-> key, arg |-> arg, ret |-> ret, prev |-> last.op]

\* Object::new by the caller itself: Ok(object) or Err(e), storage untouched
ObjectNew ==
    \E name \in Names, settings \in SettingsSet, texture_ok \in BOOLEAN :
        StorageStep("new", name, settings, objects,
                    Object_new_calls(name, Triangle.vertices, Triangle.indices,
                                     settings, texture_ok),
                    IF texture_ok THEN "Ok" ELSE "Err")

NewObject ==
    \E name \in Names, settings \in SettingsSet, texture_ok \in BOOLEAN :
        LET s == new_object(objects, name, Triangle.vertices, Triangle.indices,
                            settings, texture_ok)
        IN  StorageStep("new_object", name, settings, s.storage, s.r, s.ret)

\* add_object of an object the caller got from Object::new
AddObject ==
    \E key \in Names, name \in Names, settings \in SettingsSet :
        LET object == Object_new(name, Triangle.vertices, Triangle.indices, settings)
        IN  StorageStep("add_object", key, name, add_object(objects, key, object),
                        <<>>, Unit)

UpdateObject ==
    \E key \in Names, callback \in CallbackArgs :
        StorageStep("update_object", key, callback,
                    update_object(objects, key, callback), <<>>, Unit)

\* HashMap::remove through Deref
Remove ==
    \E key \in Names :
        StorageStep("remove", key, Unit, remove(objects, key), <<>>,
                    IF key \in DOMAIN objects THEN "Some" ELSE "None")

----------------------------------------------------------------------------
(* Specifications *)

\* the storage after Object::new succeeded for each name of ns
Fresh(ns, settings) ==
    [n \in ns |-> Object_new(n, Triangle.vertices, Triangle.indices, settings)]

\* ns registered, the last of them being name; b operations to come
InitWith(ns, name, b) ==
    \E settings \in SettingsSet :
        /\ objects = Fresh(ns, settings)
        /\ calls = Object_new_calls(name, Triangle.vertices, Triangle.indices,
                                    settings, TRUE)
        /\ last = [op |-> "new", on |-> name, arg |-> settings, ret |-> "Ok",
                   prev |-> "none"]
        /\ budget = b

\* one object, every public operation of Object
Init == InitWith({"A"}, "A", MaxOps)

Next ==
    \/ SetName
    \/ SetScale
    \/ Resize
    \/ SetRotation
    \/ Rotate
    \/ SetTranslation
    \/ Translate
    \/ SetPosition
    \/ SetColor
    \/ SetRenderOrder
    \/ SetTexture
    \/ SetTextureRaw
    \/ FlagAsChanged
    \/ SetVisibility
    \/ InverseMatrices
    \/ Update
    \/ UpdateAndReturn
    \/ UpdateVertexBuffer
    \/ UpdateVertexBufferAndReturn
    \/ UpdateShader
    \/ UpdateShaderAndReturn
    \/ UpdateUniformBuffer
    \/ UpdateUniformBufferAndReturn
    \/ UpdateInstanceBuffer
    \/ UpdateInstanceBufferAndReturn
    \/ ReferenceVertices
    \/ ReferenceShader
    \/ ReferenceTexture
    \/ ReferenceUniformBuffer
    \/ AddInstance

Spec == Init /\ [][Next]_vars

\* one object, its transform operations
InitTransform == InitWith({"A"}, "A", MaxTransformOps)

NextTransform ==
    \/ SetScale
    \/ Resize
    \/ SetRotation
    \/ Rotate
    \/ SetTranslation
    \/ Translate
    \/ SetPosition
    \/ InverseMatrices

SpecTransform == InitTransform /\ [][NextTransform]_vars

\* one object, mutations followed by update passes
InitUpdate == InitWith({"A"}, "A", MaxUpdateOps)

NextUpdate ==
    \/ AddInstance
    \/ SetColor
    \/ SetScale
    \/ Translate
    \/ SetName
    \/ Update
    \/ UpdateAndReturn
    \/ UpdateVertexBuffer
    \/ UpdateUniformBuffer
    \/ UpdateShader
    \/ UpdateInstanceBuffer

SpecUpdate == InitUpdate /\ [][NextUpdate]_vars

\* two registered objects, their textures, references and update passes
InitRegistry == InitWith({"A", "B"}, "B", MaxRegistryOps)

NextRegistry ==
    \/ SetTexture
    \/ SetTextureRaw
    \/ ReferenceTexture
    \/ SetColor
    \/ Update
    \/ UpdateAndReturn

SpecRegistry == InitRegistry /\ [][NextRegistry]_vars

\* an empty storage and the operations that fill and change it
InitStorage ==
    /\ objects = ObjectStorage_new
    /\ calls = <<>>
    /\ last = [op |-> "ObjectStorage::new", on |-> "none", arg |-> Unit, ret |-> Unit,
               prev |-> "none"]
    /\ budget = MaxStorageOps

NextStorage ==
    \/ ObjectNew
    \/ NewObject
    \/ AddObject
    \/ UpdateObject
    \/ Remove

SpecStorage == InitStorage /\ [][NextStorage]_vars

\* one object, the operations that compose with the transform before them
InitCompose == InitWith({"A"}, "A", MaxComposeOps)

NextCompose ==
    \/ SetScale
    \/ Resize
    \/ SetRotation
    \/ Rotate
    \/ Translate

SpecCompose == InitCompose /\ [][NextCompose]_vars

\* a fresh object moved by translate and set_position only
InitPosition == InitWith({"A"}, "A", MaxPositionOps)

NextPosition ==
    \/ Translate
    \/ SetPosition

SpecPosition == InitPosition /\ [][NextPosition]_vars

\* a fresh object turned by set_rotation and rotate only
InitRotation == InitWith({"A"}, "A", MaxRotationOps)

NextRotation ==
    \/ SetRotation
    \/ Rotate

SpecRotation == InitRotation /\ [][NextRotation]_vars

\* one object, shader templates set on its builder and the shader built
InitShader == InitWith({"A"}, "A", MaxShaderOps)

NextShader ==
    \/ SetShader
    \/ UpdateShader

SpecShader == InitShader /\ [][NextShader]_vars

----------------------------------------------------------------------------
(* Properties.  o and o2 are the object the step's operation ran on,       *)
(* before and after the call.                                              *)

TransformMutators ==
    {"set_scale", "resize", "set_rotation", "rotate", "translate",
     "set_translation", "set_position"}

ReferenceOps ==
    {"reference_vertices", "reference_shader", "reference_texture",
     "reference_uniform_buffer"}

\* the operations that set the flag
DirtyingOps ==
    TransformMutators \cup {"set_color", "set_texture", "set_texture_raw", "add_instance"}

\* the step's operation returned normally (set_texture: with Ok)
Succeeded(l) == l.op = "set_texture" => l.ret = "Ok"

\* C1 as stated: every transform, visibility or resource mutator, the
\* reference_* operations and set_visibility included, leaves changed == true.
C1_EveryMutatorSetsChanged ==
    [][ (last'.op \in DirtyingOps \cup ReferenceOps \cup {"set_visibility"}
            /\ Succeeded(last'))
        => objects'[last'.on].changed ]_vars

\* C1 (amended): every operation that mutates transform, color, texture or
\* instance state leaves changed == true from every starting state, while
\* set_visibility and the four reference_* operations leave changed as it was.
C1_DirtyingMutatorsSetChanged ==
    [][ LET o == objects[last'.on]
            o2 == objects'[last'.on]
        IN  /\ (last'.op \in DirtyingOps /\ Succeeded(last')) => o2.changed
            /\ last'.op \in ReferenceOps \cup {"set_visibility"}
                   => o2.changed = o.changed ]_vars

\* a clean object was dirtied by its first mutation
C1_Witness ==
    /\ last.op = "set_color"
    /\ last.prev = "new"
    /\ objects[last.on].changed

\* C2 as stated: no operation other than update / update_and_return,
\* flag_as_changed with any argument included, takes changed from true to false.
C2_OnlyUpdateClears ==
    [][ (objects[last'.on].changed /\ last'.op \notin {"update", "update_and_return"})
        => objects'[last'.on].changed ]_vars

\* C2 (amended): update, update_and_return and flag_as_changed(false) are the
\* only operations that take an Object from Dirty to Clean; after any other
\* operation (flag_as_changed(true) included) a dirty object is still dirty.
C2_OnlyUpdateOrFlagFalseClears ==
    [][ ( /\ objects[last'.on].changed
          /\ last'.op \notin {"update", "update_and_return"}
          /\ ~(last'.op = "flag_as_changed" /\ last'.arg = FALSE) )
        => objects'[last'.on].changed ]_vars

\* a dirtied object went through a non-clearing operation and is still dirty
C2_Witness ==
    /\ last.prev = "translate"
    /\ last.op = "set_visibility"
    /\ objects[last.on].changed

\* the uniform parts the renderer builds from o's transform and color
CurrentParts(o) ==
    << [kind |-> "UniformPart", name |-> "Transformation Matrix",
        value |-> Matrix4_mul(Matrix4_mul(o.translation_matrix,
                                          Matrix4_from_quat(o.rotation_quaternion)),
                              o.scale_matrix)],
       [kind |-> "UniformPart", name |-> "Color", value |-> o.color] >>

\* the raw entries of o's instances, one per instance in list order
CurrentInstanceData(o) == [k \in 1..Len(o.instances) |-> Instance_build(o.instances[k])]

\* the four resources of o are those built from o's CPU-side state
Regenerated(o) ==
    /\ o.pipeline.vertex_buffer =
           Data([kind |-> "VertexBuffers", vertices |-> o.vertices, indices |-> o.indices])
    /\ o.pipeline.uniform =
           Data(Some([kind |-> "UniformBuffers", parts |-> CurrentParts(o)]))
    /\ o.pipeline.shader =
           Data([kind |-> "Shaders", name |-> o.name, source |-> o.shader_builder.shader,
                 layout |-> Some([kind |-> "BindGroupLayout", parts |-> CurrentParts(o)]),
                 settings |-> o.shader_settings])
    /\ o.instance_buffer = [kind |-> "InstanceBuffer", data |-> CurrentInstanceData(o)]

\* C3: update_and_return regenerates as update does: after either, the vertex
\* buffer slot, uniform buffer slot, shader slot and instance buffer are built
\* from the object's current state and changed == false.
C3_UpdateAndReturnRegenerates ==
    last.op \in {"update", "update_and_return"}
        => /\ Regenerated(objects[last.on])
           /\ ~objects[last.on].changed

\* C4: after set_position(p) the stored position equals p.
C4_SetPositionStoresP ==
    last.op = "set_position" => objects[last.on].position = last.arg

\* C5: after resize(s), scale_matrix and size are those of a freshly
\* constructed object after one set_scale(s): scale(s) and s.
C5_ResizeIsAbsolute ==
    last.op = "resize"
        => LET o == objects[last.on]
               fresh == set_scale(Object_new(o.name, o.vertices, o.indices,
                                             [camera_effect |-> o.camera_effect,
                                              shader_settings |-> o.shader_settings]),
                                  last.arg)
           IN  /\ o.scale_matrix = fresh.scale_matrix
               /\ o.size = fresh.size
               /\ o.scale_matrix = Matrix4_from_scale(last.arg)
               /\ o.size = last.arg

TextureOps == {"set_texture", "set_texture_raw", "reference_texture"}

\* C6: once b.reference_texture(a) has run, b's texture slot is the name a -
\* PipelineData::Copy(a) - and stays so under every operation on any object
\* other than a texture operation on b itself; whenever a owns a texture,
\* resolving b's slot through the storage yields the texture a owns now.
C6_ReferenceFollowsReferent ==
    [][ \A b \in DOMAIN objects' :
          LET slot == objects[b].pipeline.texture
              slot2 == objects'[b].pipeline.texture
          IN  /\ (last'.op = "reference_texture" /\ last'.on = b)
                   => slot2 = Copy(last'.arg)
              /\ (slot.tag = "Copy" /\ ~(last'.on = b /\ last'.op \in TextureOps))
                   => slot2 = slot
              /\ ( /\ slot2.tag = "Copy"
                   /\ slot2.id \in DOMAIN objects'
                   /\ objects'[slot2.id].pipeline.texture.tag = "Data" )
                   => ResolveTexture(objects', b)
                        = Some(objects'[slot2.id].pipeline.texture.data) ]_vars

\* B references A's texture, A's texture was replaced and A updated: B's slot
\* is still the name, and it resolves to the replacement
C6_Witness ==
    /\ last.op = "update"
    /\ last.on = "A"
    /\ last.prev = "set_texture"
    /\ objects["B"].pipeline.texture = Copy("A")
    /\ objects["A"].pipeline.texture.tag = "Data"
    /\ objects["A"].pipeline.texture.data.data = "image1"
    /\ ResolveTexture(objects, "B") = Some(objects["A"].pipeline.texture.data)

\* the mutators C7 names
C7Mutators ==
    (TransformMutators \ {"set_translation"})
        \cup {"set_color", "set_texture", "set_texture_raw", "set_visibility",
              "set_render_order", "add_instance"}
        \cup ReferenceOps

\* a pipeline slot holds what it held, or names another object
SlotKept(before, after) == after = before \/ after.tag = "Copy"

\* the buffers and the shader an update pass regenerates are those of before
BuffersKept(o, o2) ==
    /\ SlotKept(o.pipeline.vertex_buffer, o2.pipeline.vertex_buffer)
    /\ SlotKept(o.pipeline.uniform, o2.pipeline.uniform)
    /\ SlotKept(o.pipeline.shader, o2.pipeline.shader)
    /\ o2.instance_buffer = o.instance_buffer
    /\ o2.uniform_buffers = o.uniform_buffers
    /\ o2.uniform_layout = o.uniform_layout

\* C7 as stated: no mutator, set_texture and set_texture_raw included, calls
\* a renderer build operation or installs an owned GPU resource.
C7_NoMutatorTouchesGpu ==
    [][ last'.op \in C7Mutators
        => LET o == objects[last'.on]
               o2 == objects'[last'.on]
           IN  /\ calls' = <<>>
               /\ BuffersKept(o, o2)
               /\ SlotKept(o.pipeline.texture, o2.pipeline.texture) ]_vars

\* C7 (amended): the vertex buffer, uniform buffer, shader and instance buffer
\* are regenerated only by the update operations.  No mutator other than
\* set_texture calls the renderer, and no mutator other than set_texture and
\* set_texture_raw installs an owned GPU resource: set_texture calls
\* build_texture once and on success installs the built texture in the texture
\* slot, set_texture_raw installs the texture it is given.
C7_OnlyTextureMutatorsTouchGpu ==
    [][ last'.op \in C7Mutators
        => LET o == objects[last'.on]
               o2 == objects'[last'.on]
           IN  /\ BuffersKept(o, o2)
               /\ last'.op \notin {"set_texture", "set_texture_raw"}
                    => /\ calls' = <<>>
                       /\ SlotKept(o.pipeline.texture, o2.pipeline.texture)
               /\ last'.op = "set_texture_raw"
                    => /\ calls' = <<>>
                       /\ o2.pipeline.texture = Data(last'.arg)
               /\ (last'.op = "set_texture" /\ last'.ret = "Ok")
                    => /\ Len(calls') = 1
                       /\ calls'[1].kind = "Textures"
                       /\ o2.pipeline.texture = Data(calls'[1])
               /\ (last'.op = "set_texture" /\ last'.ret = "Err")
                    => /\ calls' = <<Failed("build_texture")>>
                       /\ o2.pipeline.texture = o.pipeline.texture ]_vars

\* a mutator ran and the GPU-side instance buffer is still the one built
\* before it: two instances, a buffer of one
C7_Witness ==
    /\ last.op = "add_instance"
    /\ calls = <<>>
    /\ Len(objects[last.on].instances) = 2
    /\ Len(objects[last.on].instance_buffer.data) = 1

\* C8: add_instance appends exactly one instance, keeps the others and sets
\* changed; update() on the dirty object builds an instance buffer of one raw
\* entry per instance, in list order, and leaves changed == false.
C8_AddInstanceThenUpdate ==
    [][ LET o == objects[last'.on]
            o2 == objects'[last'.on]
        IN  /\ last'.op = "add_instance"
                 => /\ Len(o2.instances) = Len(o.instances) + 1
                    /\ \A k \in 1..Len(o.instances) : o2.instances[k] = o.instances[k]
                    /\ o2.instances[Len(o2.instances)] = last'.arg
                    /\ o2.changed
            /\ (last'.op = "update" /\ o.changed)
                 => /\ o2.instances = o.instances
                    /\ o2.instance_buffer.kind = "InstanceBuffer"
                    /\ Len(o2.instance_buffer.data) = Len(o2.instances)
                    /\ \A k \in 1..Len(o2.instances) :
                           o2.instance_buffer.data[k] = Instance_build(o2.instances[k])
                    /\ ~o2.changed ]_vars

\* two add_instance calls, then update: three instances, three raw entries
C8_Witness ==
    /\ last.op = "update"
    /\ last.prev = "add_instance"
    /\ Len(objects[last.on].instances) = 3
    /\ Len(objects[last.on].instance_buffer.data) = 3
    /\ ~objects[last.on].changed

\* C9: update() asks the renderer, in this order, for the vertex buffer (from
\* vertices / indices), the two uniform parts and the uniform buffer (from
\* translation x rotation x scale and color), the shader (from the
\* shader_builder source, the settings and the layout of that uniform buffer)
\* and the instance buffer (from the instance list), and leaves changed false;
\* none of the four steps clears the flag by itself.
C9_UpdateOrder ==
    [][ LET o == objects[last'.on]
            o2 == objects'[last'.on]
        IN  /\ last'.op = "update"
                 => /\ calls' =
                         << [kind |-> "VertexBuffers", vertices |-> o.vertices,
                             indices |-> o.indices],
                            CurrentParts(o)[1],
                            CurrentParts(o)[2],
                            [kind |-> "UniformBuffers", parts |-> CurrentParts(o)],
                            [kind |-> "Shaders", name |-> o.name,
                             source |-> o.shader_builder.shader,
                             layout |-> Some([kind |-> "BindGroupLayout",
                                              parts |-> CurrentParts(o)]),
                             settings |-> o.shader_settings],
                            [kind |-> "InstanceBuffer", data |-> CurrentInstanceData(o)] >>
                    /\ ~o2.changed
            /\ last'.op \in {"update_vertex_buffer", "update_uniform_buffer",
                             "update_shader", "update_instance_buffer"}
                 => o2.changed = o.changed ]_vars

\* an update after a transform mutation: the shader was built with the layout
\* of the uniform buffer built just before it, not with the old one
C9_Witness ==
    /\ last.op = "update"
    /\ last.prev = "translate"
    /\ Len(calls) = 6
    /\ calls[5].kind = "Shaders"
    /\ calls[5].layout.value.parts = calls[4].parts
    /\ calls[4].parts[1].value # Matrix4_IDENTITY

\* C10: a second update() with no mutation in between leaves every field of
\* the Object as the first one left it and asks the renderer for the same builds.
C10_UpdateIdempotent ==
    [][ (last.op = "update" /\ last'.op = "update" /\ last'.on = last.on)
        => /\ objects'[last'.on] = objects[last'.on]
           /\ calls' = calls ]_vars

\* update ran twice in a row on a mutated object
C10_Witness ==
    /\ last.op = "update"
    /\ last.prev = "update"
    /\ Len(objects[last.on].instances) = 2
    /\ Regenerated(objects[last.on])

\* C11: in every reachable state of the storage, after any sequence of
\* new_object, add_object, update_object (with any callback, set_name included)
\* and map insert / remove, each entry's key equals the name of the Object
\* stored under it.
C11_KeyIsName ==
    \A k \in DOMAIN objects : objects[k].name = k

\* a renderer call of the step failed
CallFailed(r) == \E i \in DOMAIN r : r[i].kind = "Error"

\* C12: when build_texture fails during creation, Object::new returns Err and
\* yields no Object, and ObjectStorage::new_object likewise hands the error
\* back to its caller and leaves the storage as it was.
C12_CreationFailureReported ==
    [][ (last'.op \in {"new", "new_object"} /\ CallFailed(calls'))
        => /\ last'.ret = "Err"
           /\ objects' = objects ]_vars

\* pat occurs somewhere in s
Occurs(s, pat) == \E i \in 1..Len(s) : MatchAt(s, pat, i)

\* the position after the run of //@CAMERA_STRUCT markers that starts at j
RECURSIVE AfterMarkers(_, _)
AfterMarkers(t, j) ==
    IF MatchAt(t, CAMERA_STRUCT, j) THEN AfterMarkers(t, j + 2) ELSE j

\* the template holds //@CAMERA_STRUCT markers enclosed in the two parts of
\* another one
NestedStruct(t) ==
    \E i \in 1..Len(t) :
        /\ t[i] = CAMERA_STRUCT[1]
        /\ MatchAt(t, CAMERA_STRUCT, i + 1)
        /\ AfterMarkers(t, i + 1) <= Len(t)
        /\ t[AfterMarkers(t, i + 1)] = CAMERA_STRUCT[2]

\* C13 as stated: for every template and either camera setting, the shader
\* source after build() holds no occurrence of a declared marker.
C13_NoMarkerAfterBuild ==
    \A n \in DOMAIN objects :
        /\ ~Occurs(objects[n].shader_builder.shader, CAMERA_STRUCT)
        /\ ~Occurs(objects[n].shader_builder.shader, CAMERA_VERTEX)

\* C13 (amended): after build(), as run by ShaderBuilder::new and set_shader,
\* the source holds no //@CAMERA_VERTEX marker for any template and either
\* camera setting, and no //@CAMERA_STRUCT marker when camera_effect is Some
\* or when the template holds no such marker enclosed in the parts of another;
\* with camera_effect None the enclosed marker is replaced by the empty string
\* and the enclosing one is left in the source.
C13_NoMarkerUnlessNested ==
    \A n \in DOMAIN objects :
        LET sb == objects[n].shader_builder
        IN  /\ ~Occurs(sb.shader, CAMERA_VERTEX)
            /\ Occurs(sb.shader, CAMERA_STRUCT)
                 => /\ ~sb.camera_effect.some
                    /\ last.op \in {"set_shader", "update_shader"}
            /\ (last.op = "set_shader" /\ last.on = n)
                 => (Occurs(sb.shader, CAMERA_STRUCT)
                        <=> (~sb.camera_effect.some /\ NestedStruct(last.arg)))

\* a template with both markers was built with a camera: no marker is left
\* and both generated texts are in the source
C13_Witness ==
    /\ last.op = "set_shader"
    /\ last.arg = CAMERA_STRUCT \o CAMERA_VERTEX
    /\ objects[last.on].shader_builder.shader
         = CameraStructText(Some("main")) \o CameraVertexText(Some("main"))

\* C14: set_scale is cumulative: from every starting state, set_scale(a)
\* followed by set_scale(b) yields the scale_matrix of a single
\* set_scale(a * b) from that state, and size multiplied by a * b.
C14_SetScaleCumulative ==
    [][ last'.op = "set_scale"
        => LET o == objects[last'.on]
               o2 == objects'[last'.on]
               a == last'.arg
           IN  \A b \in ScaleArgs :
                   LET twice == set_scale(o2, b)
                       once == set_scale(o, Vec3Mul(a, b))
                   IN  /\ twice.scale_matrix = once.scale_matrix
                       /\ twice.size = once.size
                       /\ twice.size = Vec3Mul(o.size, Vec3Mul(a, b)) ]_vars

\* set_scale(2, 2, 2) then set_scale(1, 3, 1) on a fresh object
C14_Witness ==
    /\ last.op = "set_scale"
    /\ last.prev = "set_scale"
    /\ last.arg = <<1, 3, 1>>
    /\ objects[last.on].size = <<2, 6, 2>>
    /\ objects[last.on].scale_matrix = Matrix4_from_scale(<<2, 6, 2>>)

\* the translation component of a matrix
TranslationOf(m) == <<m[1][4], m[2][4], m[3][4]>>

SecondAngles == {-1, 1, 2, 3}

\* C16: rotate is additive per axis: from every starting state,
\* rotate(Radians(t1), axis) followed by rotate(Radians(t2), axis) yields the
\* rotation_quaternion and the stored Euler rotation of a single
\* rotate(Radians(t1 + t2), axis).
C16_RotateAdditive ==
    [][ (last'.op = "rotate" /\ last'.arg[1].unit = "Radians")
        => LET o == objects[last'.on]
               o2 == objects'[last'.on]
               t1 == last'.arg[1].amount
               axis == last'.arg[2]
           IN  \A t2 \in SecondAngles :
                   LET twice == rotate(o2, Radians(t2), axis)
                       once == rotate(o, Radians(t1 + t2), axis)
                   IN  /\ twice.rotation_quaternion = once.rotation_quaternion
                       /\ twice.rotation = once.rotation ]_vars

\* two half turns about X on a fresh object: one full turn
C16_Witness ==
    /\ last.op = "rotate"
    /\ last.prev = "rotate"
    /\ last.arg = <<Radians(1), "X">>
    /\ objects[last.on].rotation = <<2, 0, 0>>
    /\ objects[last.on].rotation_quaternion = Quaternion_from_rotation_x(2)

\* C17: in every state reachable from Object::new through the Object's
\* operations the instance list has at least one entry: construction installs
\* exactly one default instance, and it stays first in the list.
C17_InstancesNonEmpty ==
    \A n \in DOMAIN objects :
        /\ Len(objects[n].instances) >= 1
        /\ objects[n].instances[1] = Instance_default
        /\ last.op = "new" => objects[n].instances = <<Instance_default>>

\* an instance was added and a pass run: the default one and the added one
C17_Witness ==
    /\ last.op = "update_and_return"
    /\ last.prev = "add_instance"
    /\ Len(objects[last.on].instances) = 2
    /\ objects[last.on].instances[2] # Instance_default

\* the resources o owns are those the renderer builds from o's CPU-side state
Coherent(o) ==
    /\ o.pipeline.vertex_buffer.tag = "Data"
         => o.pipeline.vertex_buffer.data =
              [kind |-> "VertexBuffers", vertices |-> o.vertices, indices |-> o.indices]
    /\ o.pipeline.uniform.tag = "Data"
         => o.pipeline.uniform.data =
              Some([kind |-> "UniformBuffers", parts |-> CurrentParts(o)])
    /\ o.pipeline.shader.tag = "Data"
         => o.pipeline.shader.data.source = o.shader_builder.shader
    /\ o.instance_buffer = [kind |-> "InstanceBuffer", data |-> CurrentInstanceData(o)]

\* C18: clean means coherent: in every reachable state with changed == false
\* the owned vertex buffer, uniform buffer and shader and the instance buffer
\* are what the renderer would build from the current vertices / indices,
\* translation x rotation x scale matrix and color, shader_builder source and
\* instance list.
C18_CleanMeansCoherent ==
    \A n \in DOMAIN objects : ~objects[n].changed => Coherent(objects[n])

\* the operations that may rewrite a pipeline slot holding a reference
SlotWriters(slot) ==
    CASE slot = "vertex_buffer" -> {"reference_vertices"}
      [] slot = "shader" -> {"reference_shader"}
      [] slot = "uniform" -> {"reference_uniform_buffer"}
      [] slot = "texture" -> {"reference_texture", "set_texture", "set_texture_raw"}

\* C19: a slot set to a named reference stays PipelineData::Copy(n) across
\* update() / update_and_return() and every other operation, and changes only
\* through a later reference_* or set_texture* call on that same slot.
C19_ReferenceSurvivesUpdate ==
    [][ \A slot \in {"vertex_buffer", "shader", "uniform", "texture"} :
          LET before == objects[last'.on].pipeline[slot]
              after == objects'[last'.on].pipeline[slot]
          IN  (before.tag = "Copy" /\ last'.op \notin SlotWriters(slot))
                  => after = before ]_vars

\* C20: after every public transform mutator returns, in any sequence,
\* inverse_transformation_matrix equals transpose(inverse(translation_matrix x
\* rotation_matrix(rotation_quaternion) x scale_matrix)) of the object's
\* current fields (its transpose times that product is the identity): the
\* derived matrix is never stale.
C20_InverseNeverStale ==
    last.op \in TransformMutators
        => LET o == objects[last.on]
               m == Matrix4_mul(Matrix4_mul(o.translation_matrix,
                                            Matrix4_from_quat(o.rotation_quaternion)),
                                o.scale_matrix)
           IN  /\ o.inverse_transformation_matrix.den # 0
               /\ o.inverse_transformation_matrix =
                      Rational_transpose(Matrix4_inverse(m))
               /\ Matrix4_mul(Matrix4_transpose(o.inverse_transformation_matrix.num), m)
                      = [r \in 1..4 |-> [c \in 1..4 |->
                            IF r = c THEN o.inverse_transformation_matrix.den ELSE 0]]

\* a rotation set after a scale and a translation: the inverse follows all three
C20_Witness ==
    /\ last.op = "set_rotation"
    /\ objects[last.on].scale_matrix # Matrix4_IDENTITY
    /\ objects[last.on].translation_matrix # Matrix4_IDENTITY
    /\ objects[last.on].rotation_quaternion # Quaternion_IDENTITY
    /\ objects[last.on].inverse_transformation_matrix
         # Rational_transpose(Matrix4_inverse(Matrix4_IDENTITY))

\* C21: position and translation matrix agree: in every state reached from
\* a fresh object by translate and set_position calls, the translation
\* component of translation_matrix equals the stored position.
C21_PositionMatchesMatrix ==
    \A n \in DOMAIN objects :
        TranslationOf(objects[n].translation_matrix) = objects[n].position

\* C22: Euler angles and quaternion agree: in every state reached from a fresh
\* object by set_rotation and rotate calls, rotation_quaternion equals
\* from_rotation_x(rotation.x) x from_rotation_y(rotation.y) x
\* from_rotation_z(rotation.z), so set_rotation of the stored rotation would
\* leave the quaternion as it is.
C22_EulerMatchesQuaternion ==
    \A n \in DOMAIN objects :
        LET o == objects[n]
        IN  /\ o.rotation_quaternion =
                   Quaternion_mul(
                       Quaternion_mul(Quaternion_from_rotation_x(o.rotation[1]),
                                      Quaternion_from_rotation_y(o.rotation[2])),
                       Quaternion_from_rotation_z(o.rotation[3]))
            /\ set_rotation(o, o.rotation).rotation_quaternion = o.rotation_quaternion

\* C23: a failed set_texture leaves the object untouched: when build_texture
\* returns an error, set_texture returns the error and the texture slot, the
\* changed flag and every other field of the object (and every other object
\* of the storage) are as before the call.
C23_FailedSetTextureNoEffect ==
    [][ last'.op = "set_texture"
        => /\ CallFailed(calls') <=> last'.ret = "Err"
           /\ last'.ret = "Err"
                => /\ objects' = objects
                   /\ calls' = <<Failed("build_texture")>> ]_vars

\* set_texture failed on a clean object whose slot names another object: the
\* object is still clean and the slot still the reference
C23_Witness ==
    /\ last.op = "set_texture"
    /\ last.ret = "Err"
    /\ last.prev = "reference_texture"
    /\ ~objects[last.on].changed
    /\ objects[last.on].pipeline.texture.tag = "Copy"

====
